---------------------------- MODULE Spec2Model ----------------------------
(***************************************************************************)
(* Model of the LinkedIn profile tool (src/main.ts): the profile-to-note   *)
(* formatter fetchLinkedInProfile, the query builder                       *)
(* searchLinkedInProfiles, and the handlers of FromURLModal,               *)
(* SearchProfilesModal and PickProfileModal that hand their results to the *)
(* vault and the editor.                                                   *)
(*                                                                         *)
(* A JavaScript string is a sequence of one-character strings, so that     *)
(* concatenation, split, join, trim and substring tests are computed and   *)
(* not assumed.  A value that may be undefined is an option: <<>> is       *)
(* undefined and <<v>> is the value v.                                     *)
(***************************************************************************)
EXTENDS Naturals, Sequences, FiniteSets

(***************************************************************************)
(* Options (possibly undefined values).                                    *)
(***************************************************************************)
None == <<>>
Some(v) == <<v>>
IsNone(o) == Len(o) = 0
IsSome(o) == Len(o) = 1
Get(o) == o[1]

(***************************************************************************)
(* String primitives of the JavaScript runtime.                            *)
(***************************************************************************)
Undefined == <<"u", "n", "d", "e", "f", "i", "n", "e", "d">>

\* `${x}` in a template literal: the string itself, or "undefined".
Str(o) == IF IsNone(o) THEN Undefined ELSE Get(o)

DigitChars == <<"0", "1", "2", "3", "4", "5", "6", "7", "8", "9">>

RECURSIVE NumToStr(_)
\* `${n}` for a non-negative integer: its decimal digits.
NumToStr(n) ==
    IF n < 10 THEN <<DigitChars[n + 1]>>
    ELSE NumToStr(n \div 10) \o <<DigitChars[(n % 10) + 1]>>

\* sub occurs in s at index k.
MatchAt(s, sub, k) ==
    /\ k + Len(sub) - 1 <= Len(s)
    /\ \A j \in 1..Len(sub) : s[k + j - 1] = sub[j]

RECURSIVE IndexFrom(_, _, _)
\* The least index from k on at which sub occurs in s, 0 when there is none.
IndexFrom(s, sub, k) ==
    IF k + Len(sub) - 1 > Len(s) THEN 0
    ELSE IF MatchAt(s, sub, k) THEN k
    ELSE IndexFrom(s, sub, k + 1)

\* The least index at which sub occurs in s, 0 when it does not occur.
IndexOf(s, sub) == IndexFrom(s, sub, 1)

\* String.prototype.contains (Obsidian's alias of includes).
StrContains(s, sub) == IndexOf(s, sub) # 0

StartsWith(s, pre) == MatchAt(s, pre, 1)

RECURSIVE Split(_, _)
\* s.split(sep) for a non-empty separator.
Split(s, sep) ==
    LET k == IndexOf(s, sep)
    IN IF k = 0 THEN <<s>>
       ELSE <<SubSeq(s, 1, k - 1)>> \o Split(SubSeq(s, k + Len(sep), Len(s)), sep)

RECURSIVE Join(_, _)
\* parts.join(sep)
Join(parts, sep) ==
    IF Len(parts) = 0 THEN <<>>
    ELSE IF Len(parts) = 1 THEN parts[1]
    ELSE parts[1] \o sep \o Join(Tail(parts), sep)

WhiteSpace == {" ", "\n", "\t"}

RECURSIVE TrimStart(_)
TrimStart(s) ==
    IF Len(s) > 0 /\ s[1] \in WhiteSpace THEN TrimStart(Tail(s)) ELSE s

RECURSIVE TrimEnd(_)
TrimEnd(s) ==
    IF Len(s) > 0 /\ s[Len(s)] \in WhiteSpace
    THEN TrimEnd(SubSeq(s, 1, Len(s) - 1)) ELSE s

\* String.prototype.trim
Trim(s) == TrimEnd(TrimStart(s))

\* Mutant of ArrContains: an element that is a prefix of x counts as x.
ArrContainsPrefix(arr, x) ==
    \E k \in 1..Len(arr) :
        /\ Len(arr[k]) = Len(x)
        /\ IsSome(x) => StartsWith(Get(x), Get(arr[k]))

\* Array.prototype.contains (Obsidian's alias of includes): strict equality.
ArrContains(arr, x) == \E k \in 1..Len(arr) : arr[k] = x

(***************************************************************************)
(* fetchLinkedInProfile: the literals of the note's markup.                *)
(***************************************************************************)
BackgroundHeader == <<"#", "#", " ", "B", "a", "c", "k", "g", "r", "o", "u", "n", "d", "\n">>
WorkHeader == <<"#", "#", "#", " ", "W", "o", "r", "k", "\n">>
EducationHeader == <<"#", "#", "#", " ", "E", "d", "u", "c", "a", "t", "i", "o", "n", "\n">>
Footer == <<"\n", "-", "-", "-", "\n", "#", "p", "e", "o", "p", "l", "e">>
Internship == <<"I", "n", "t", "e", "r", "n", "s", "h", "i", "p">>
InternWord == <<"I", "n", "t", "e", "r", "n">>
InternSuffix == <<" ", "I", "n", "t", "e", "r", "n">>
Bold == <<"*", "*">>
BoldAt == <<"*", "*", " ", "a", "t", " ">>
BoldSpace == <<"*", "*", " ">>
Since == <<" ", "s", "i", "n", "c", "e", " ">>
From == <<" ", "f", "r", "o", "m", " ">>
To == <<" ", "t", "o", " ">>
LinkOpen == <<"[", "[">>
LinkClose == <<"]", "]">>
Bullet == <<"-", " ">>
NewlineBullet == <<"\n", "-", " ">>
NL == <<"\n">>

(***************************************************************************)
(* fetchLinkedInProfile: one iteration of the loop over result.position.   *)
(***************************************************************************)
\* The property reads that raise a TypeError inside the iteration: .en_US of
\* an absent multiLocaleTitle or multiLocaleCompanyName, and .contains of an
\* undefined title when employmentType is 'Internship'.
JobThrows(job) ==
    \/ IsNone(job.multiLocaleTitle)
    \/ (job.employmentType = Internship /\ IsNone(Get(job.multiLocaleTitle)))
    \/ IsNone(job.multiLocaleCompanyName)

\* Mutant of jobTitle: every internship gets the suffix.
jobTitleEveryInternship(job) ==
    LET t == Get(job.multiLocaleTitle)
    IN IF job.employmentType = Internship THEN Some(Get(t) \o InternSuffix) ELSE t

\* jobTitle after lines 73-76, an option: undefined when en_US is absent.
jobTitle(job) ==
    LET t == Get(job.multiLocaleTitle)
    IN IF job.employmentType = Internship /\ ~StrContains(Get(t), InternWord)
       THEN Some(Get(t) \o InternSuffix)
       ELSE t

\* jobNotes after lines 77-81.
jobNotes(job) ==
    (IF job.location # <<>> THEN NewlineBullet \o job.location ELSE <<>>)
    \o (IF job.description # <<>>
        THEN Bullet \o Join(Split(job.description, NL), NewlineBullet) \o NL
        ELSE <<>>)

\* A company or school name: a link unless linkedOrgs already holds it.
OrgRef(orgs, name) ==
    IF ArrContains(orgs, name) THEN Str(name)
    ELSE LinkOpen \o Str(name) \o LinkClose

\* "m/" when the month is present.
MonthPart(month) == IF month # 0 THEN NumToStr(month) \o <<"/">> ELSE <<>>

\* The text a job adds to the body (lines 83-88 and 92-99).
JobText(job, orgs) ==
    LET company == Get(job.multiLocaleCompanyName)
    IN IF job.end.year = 0
       THEN Bold \o Str(jobTitle(job)) \o BoldAt \o OrgRef(orgs, company)
            \o Since \o MonthPart(job.start.month) \o NumToStr(job.start.year)
            \o <<".">> \o jobNotes(job) \o NL
       ELSE Bold \o Str(jobTitle(job)) \o BoldAt \o OrgRef(orgs, company)
            \o From \o MonthPart(job.start.month) \o NumToStr(job.start.year)
            \o To \o MonthPart(job.end.month) \o NumToStr(job.end.year)
            \o <<".">> \o jobNotes(job) \o NL

\* Mutant of BodyAfterJob: every position goes behind the body.
BodyAfterJobAppend(body, job, orgs) == body \o JobText(job, orgs)

\* noteContent.body after the assignment of line 82: a current position goes
\* in front of the body accumulated so far, a past one behind it.
BodyAfterJob(body, job, orgs) ==
    IF job.end.year = 0 THEN JobText(job, orgs) \o body
    ELSE body \o JobText(job, orgs)

\* linkedOrgs after line 101.
OrgsAfterJob(orgs, job) == Append(orgs, Get(job.multiLocaleCompanyName))

(***************************************************************************)
(* fetchLinkedInProfile: one iteration of the loop over result.educations. *)
(***************************************************************************)
\* school.degree.contains raises a TypeError when degree is undefined.
SchoolThrows(school) == IsNone(school.degree)

\* The degree text of lines 108-109.
DegreeText(degree) ==
    IF StrContains(degree, <<"-">>) THEN Trim(Split(degree, <<"-">>)[2])
    ELSE degree

\* The text a school adds to the body (lines 106-124).
SchoolText(school, orgs) ==
    Bold \o school.fieldOfStudy \o BoldSpace \o DegreeText(Get(school.degree))
    \o From \o OrgRef(orgs, school.schoolName)
    \o (IF school.end.year # 0
        THEN <<",", " ">> \o NumToStr(school.end.year) \o <<".">>
        ELSE <<".">>)
    \o NL
    \o (IF school.description # <<>>
        THEN Bullet \o Join(Split(school.description, NL), NewlineBullet) \o NL
        ELSE <<>>)
    \o (IF school.activities # <<>>
        THEN Bullet \o Join(Split(school.activities, NL), NewlineBullet) \o NL
        ELSE <<>>)

BodyAfterSchool(body, school, orgs) == body \o SchoolText(school, orgs)

\* linkedOrgs after line 125.
OrgsAfterSchool(orgs, school) == Append(orgs, school.schoolName)

(***************************************************************************)
(* fetchLinkedInProfile: the start and the end of the note.                *)
(***************************************************************************)
\* noteContent.title (line 63).
NoteTitle(r) == Str(r.firstName) \o <<" ">> \o Str(r.lastName)

\* Mutant of InitialBody: the Work header without its line break, as an
\* earlier revision of the function wrote it.
InitialBodyNoNewline == BackgroundHeader \o <<"#", "#", "#", " ", "W", "o", "r", "k">>

\* noteContent.body after lines 67-70.
InitialBody == BackgroundHeader \o WorkHeader

\* The headline and summary put in front of the body (lines 130-134).
TopOfNote(r) ==
    (IF IsSome(r.headline) THEN <<"*">> \o Get(r.headline) \o <<".", "*", "\n">>
     ELSE <<>>)
    \o (IF IsSome(r.summary) THEN Get(r.summary) \o NL ELSE NL)

\* noteContent.body after lines 128-134.
FinalBody(body, r) == TopOfNote(r) \o body \o Footer

(***************************************************************************)
(* State.  A slot is one invocation of a modal's button handler together   *)
(* with the call of fetchLinkedInProfile it makes; the locals of that call *)
(* are indexed by the slot.                                                *)
(***************************************************************************)
VARIABLES
    pc,           \* where each handler invocation stands
    button,       \* the button whose onClick runs: "create" or "insert"
    request,      \* the fetch in flight for the call, if any
    result,       \* result: the parsed response (lines 54-60)
    noteContent,  \* noteContent: [title, body] (lines 62-65)
    linkedOrgs,   \* linkedOrgs (line 71)
    idx,          \* position of the running for-of loop
    ret,          \* the value fetchLinkedInProfile returned
    sink,         \* what the handler did: vault.create, replaceSelection, Notice
    spc,          \* where the search (handler or bare call) stands
    scaller,      \* who called searchLinkedInProfiles: "onClick" or "direct"
    sargs,        \* firstName, lastName, keywords of the search
    params,       \* params (lines 151-154)
    srequest,     \* the search fetch in flight, if any
    sret,         \* the value searchLinkedInProfiles returned
    ssink,        \* what the Search handler did: Notice, PickProfileModal, close
    pstate,       \* PickProfileModal: "none", "open" or "closed"
    pitems,       \* this.searchResults of the open PickProfileModal
    peditor,      \* whether this.editor is given (the Insert button exists)
    chosenProfile, \* chosenProfile (line 461), undefined until a profile is chosen
    hpc,          \* where the handler of the last Create/Insert click stands
    hbutton,      \* the button of that click
    husername,    \* the username that click passed to fetchLinkedInProfile
    prequest,     \* the profile fetch in flight for that click, if any
    psink         \* what that handler did: vault.create, replaceSelection, Notice

pvars == <<pc, button, request, result, noteContent, linkedOrgs, idx, ret, sink>>
svars == <<spc, scaller, sargs, params, srequest, sret, ssink>>
kvars == <<pstate, pitems, peditor, chosenProfile, hpc, hbutton, husername,
           prequest, psink>>
vars == <<pvars, svars, kvars>>

Calls == {1, 2}
Buttons == {"create", "insert"}
\* The keys of DEFAULT_SETTINGS.apiHostDetails.
Hosts == {"rockapi", "rockapi-cheap", "none"}
\* profileEndpoint === '' for the development host.
EndpointEmpty(host) == host = "none"

NoNote == [title |-> <<>>, body |-> <<>>]
NoArgs == [firstName |-> None, lastName |-> None, keywords |-> None]

Init ==
    /\ pc = [c \in Calls |-> "idle"]
    /\ button = [c \in Calls |-> "create"]
    /\ request = [c \in Calls |-> None]
    /\ result = [c \in Calls |-> None]
    /\ noteContent = [c \in Calls |-> NoNote]
    /\ linkedOrgs = [c \in Calls |-> <<>>]
    /\ idx = [c \in Calls |-> 0]
    /\ ret = [c \in Calls |-> None]
    /\ sink = [c \in Calls |-> <<>>]
    /\ spc = "idle"
    /\ scaller = "onClick"
    /\ sargs = NoArgs
    /\ params = <<>>
    /\ srequest = None
    /\ sret = None
    /\ ssink = <<>>
    /\ pstate = "none"
    /\ pitems = <<>>
    /\ peditor = FALSE
    /\ chosenProfile = None
    /\ hpc = "idle"
    /\ hbutton = "create"
    /\ husername = None
    /\ prequest = None
    /\ psink = <<>>

(***************************************************************************)
(* FromURLModal: the onClick handlers up to their await.                   *)
(***************************************************************************)
\* A button is clicked: the handler calls fetchLinkedInProfile, which issues
\* the fetch unless the endpoint is empty (lines 334/355, 44-60).
OnClick(c, btn, host, username) ==
    /\ pc[c] = "idle"
    /\ button' = [button EXCEPT ![c] = btn]
    /\ request' = [request EXCEPT ![c] =
                      IF EndpointEmpty(host) THEN None
                      ELSE Some([host |-> host, username |-> username])]
    /\ pc' = [pc EXCEPT ![c] = "await"]
    /\ UNCHANGED <<result, noteContent, linkedOrgs, idx, ret, sink>>
    /\ UNCHANGED <<svars, kvars>>

\* Mutant of TableOf: one array for all calls, as it would be were it
\* declared outside the function.
TableShared(c) == 1

\* The array that the call of slot c reads and writes as linkedOrgs: its own,
\* declared inside the function (line 71).
TableOf(c) == c

\* The response (or the test profile) is in hand: lines 54-71.
Respond(c, r) ==
    /\ pc[c] = "await"
    /\ result' = [result EXCEPT ![c] = Some(r)]
    /\ noteContent' = [noteContent EXCEPT ![c] =
                          [title |-> NoteTitle(r), body |-> InitialBody]]
    /\ linkedOrgs' = [linkedOrgs EXCEPT ![TableOf(c)] = <<>>]
    /\ idx' = [idx EXCEPT ![c] = 1]
    /\ pc' = [pc EXCEPT ![c] = "jobs"]
    /\ request' = [request EXCEPT ![c] = None]
    /\ UNCHANGED <<button, ret, sink>>
    /\ UNCHANGED <<svars, kvars>>

\* fetch or response.json() rejects (lines 58-59): control goes to catch.
FetchRejects(c) ==
    /\ pc[c] = "await"
    /\ IsSome(request[c])
    /\ request' = [request EXCEPT ![c] = None]
    /\ pc' = [pc EXCEPT ![c] = "catch"]
    /\ UNCHANGED <<button, result, noteContent, linkedOrgs, idx, ret, sink>>
    /\ UNCHANGED <<svars, kvars>>

(***************************************************************************)
(* fetchLinkedInProfile: the loops, the return and the catch.              *)
(***************************************************************************)
\* One job is rendered (lines 72-102).
JobIteration(c) ==
    /\ pc[c] = "jobs"
    /\ IsSome(Get(result[c]).position)
    /\ idx[c] <= Len(Get(Get(result[c]).position))
    /\ LET job == Get(Get(result[c]).position)[idx[c]]
       IN /\ ~JobThrows(job)
          /\ noteContent' = [noteContent EXCEPT ![c].body =
                                BodyAfterJob(noteContent[c].body, job,
                                             linkedOrgs[TableOf(c)])]
          /\ linkedOrgs' = [linkedOrgs EXCEPT ![TableOf(c)] =
                               OrgsAfterJob(linkedOrgs[TableOf(c)], job)]
    /\ idx' = [idx EXCEPT ![c] = idx[c] + 1]
    /\ UNCHANGED <<pc, button, request, result, ret, sink>>
    /\ UNCHANGED <<svars, kvars>>

\* The loop over result.position raises: position is absent (for-of over
\* undefined) or the job at hand has a shape the iteration cannot read.
JobRaises(c) ==
    /\ pc[c] = "jobs"
    /\ \/ IsNone(Get(result[c]).position)
       \/ /\ IsSome(Get(result[c]).position)
          /\ idx[c] <= Len(Get(Get(result[c]).position))
          /\ JobThrows(Get(Get(result[c]).position)[idx[c]])
    /\ pc' = [pc EXCEPT ![c] = "catch"]
    /\ UNCHANGED <<button, request, result, noteContent, linkedOrgs, idx, ret, sink>>
    /\ UNCHANGED <<svars, kvars>>

\* The loop over result.position is over: line 104.
JobsDone(c) ==
    /\ pc[c] = "jobs"
    /\ IsSome(Get(result[c]).position)
    /\ idx[c] > Len(Get(Get(result[c]).position))
    /\ noteContent' = [noteContent EXCEPT ![c].body =
                          noteContent[c].body \o EducationHeader]
    /\ idx' = [idx EXCEPT ![c] = 1]
    /\ pc' = [pc EXCEPT ![c] = "schools"]
    /\ UNCHANGED <<button, request, result, linkedOrgs, ret, sink>>
    /\ UNCHANGED <<svars, kvars>>

\* One school is rendered (lines 105-126).
SchoolIteration(c) ==
    /\ pc[c] = "schools"
    /\ IsSome(Get(result[c]).educations)
    /\ idx[c] <= Len(Get(Get(result[c]).educations))
    /\ LET school == Get(Get(result[c]).educations)[idx[c]]
       IN /\ ~SchoolThrows(school)
          /\ noteContent' = [noteContent EXCEPT ![c].body =
                                BodyAfterSchool(noteContent[c].body, school,
                                                linkedOrgs[TableOf(c)])]
          /\ linkedOrgs' = [linkedOrgs EXCEPT ![TableOf(c)] =
                               OrgsAfterSchool(linkedOrgs[TableOf(c)], school)]
    /\ idx' = [idx EXCEPT ![c] = idx[c] + 1]
    /\ UNCHANGED <<pc, button, request, result, ret, sink>>
    /\ UNCHANGED <<svars, kvars>>

\* The loop over result.educations raises.
SchoolRaises(c) ==
    /\ pc[c] = "schools"
    /\ \/ IsNone(Get(result[c]).educations)
       \/ /\ IsSome(Get(result[c]).educations)
          /\ idx[c] <= Len(Get(Get(result[c]).educations))
          /\ SchoolThrows(Get(Get(result[c]).educations)[idx[c]])
    /\ pc' = [pc EXCEPT ![c] = "catch"]
    /\ UNCHANGED <<button, request, result, noteContent, linkedOrgs, idx, ret, sink>>
    /\ UNCHANGED <<svars, kvars>>

\* The value returned on success (lines 136-139).
Success(note) == [code |-> 0, details |-> Some(note)]

\* The value returned from catch (lines 143-146): the error, no note.
Failure == [code |-> 1, details |-> None]

\* Both loops are over: the bottom and the top of the note, and the return
\* (lines 127-139).
ReturnNote(c) ==
    /\ pc[c] = "schools"
    /\ IsSome(Get(result[c]).educations)
    /\ idx[c] > Len(Get(Get(result[c]).educations))
    /\ LET note == [noteContent[c] EXCEPT
                       !.body = FinalBody(noteContent[c].body, Get(result[c]))]
       IN /\ noteContent' = [noteContent EXCEPT ![c] = note]
          /\ ret' = [ret EXCEPT ![c] = Some(Success(note))]
    /\ pc' = [pc EXCEPT ![c] = "returned"]
    /\ UNCHANGED <<button, request, result, linkedOrgs, idx, sink>>
    /\ UNCHANGED <<svars, kvars>>

\* catch (lines 141-147).
Catch(c) ==
    /\ pc[c] = "catch"
    /\ ret' = [ret EXCEPT ![c] = Some(Failure)]
    /\ pc' = [pc EXCEPT ![c] = "returned"]
    /\ UNCHANGED <<button, request, result, noteContent, linkedOrgs, idx, sink>>
    /\ UNCHANGED <<svars, kvars>>

(***************************************************************************)
(* FromURLModal: the onClick handlers after their await.                   *)
(***************************************************************************)
\* Mutant of HandlerEffects: the handler writes without looking at the code.
HandlerEffectsUnchecked(btn, profile) ==
    LET note == IF IsSome(profile.details) THEN Get(profile.details)
                ELSE [title |-> Undefined, body |-> Undefined]
    IN IF btn = "create"
       THEN << [op |-> "vault.create", title |-> note.title, data |-> note.body],
               [op |-> "Notice", title |-> note.title, data |-> <<>>] >>
       ELSE << [op |-> "replaceSelection", title |-> <<>>, data |-> note.body] >>

\* What the handler of a button does with a profile (lines 335-346 and
\* 356-360): the sequence of its calls on the vault, the editor and Notice.
HandlerEffects(btn, profile) ==
    IF profile.code = 0
    THEN IF btn = "create"
         THEN << [op |-> "vault.create",
                  title |-> Get(profile.details).title,
                  data |-> Get(profile.details).body],
                 [op |-> "Notice",
                  title |-> Get(profile.details).title,
                  data |-> <<>>] >>
         ELSE << [op |-> "replaceSelection",
                  title |-> <<>>,
                  data |-> Get(profile.details).body] >>
    ELSE << [op |-> "Notice", title |-> <<>>, data |-> <<>>] >>

\* fetchLinkedInProfile has returned: the rest of the handler, to this.close().
Finish(c) ==
    /\ pc[c] = "returned"
    /\ sink' = [sink EXCEPT ![c] = HandlerEffects(button[c], Get(ret[c]))]
    /\ pc' = [pc EXCEPT ![c] = "closed"]
    /\ UNCHANGED <<button, request, result, noteContent, linkedOrgs, idx, ret>>
    /\ UNCHANGED <<svars, kvars>>

\* The command opens a new modal (lines 220-228): a new handler invocation.
\* The locals of the finished call are gone.
Reopen(c) ==
    /\ pc[c] = "closed"
    /\ pc' = [pc EXCEPT ![c] = "idle"]
    /\ button' = [button EXCEPT ![c] = "create"]
    /\ request' = [request EXCEPT ![c] = None]
    /\ result' = [result EXCEPT ![c] = None]
    /\ noteContent' = [noteContent EXCEPT ![c] = NoNote]
    /\ idx' = [idx EXCEPT ![c] = 0]
    /\ ret' = [ret EXCEPT ![c] = None]
    /\ sink' = [sink EXCEPT ![c] = <<>>]
    /\ linkedOrgs' = [linkedOrgs EXCEPT ![TableOf(c)] = <<>>]
    /\ UNCHANGED <<svars, kvars>>

(***************************************************************************)
(* The profile records the data source may answer with.                    *)
(***************************************************************************)
MaxJobs == 2
MaxSchools == 1
MaxPairEntries == 1

SeqsUpTo(S, n) == UNION {[1..k -> S] : k \in 0..n}

Ac == <<"A", "c">>
AcLower == <<"a", "c">>
Acm == <<"A", "c", "m">>
Dev == <<"D", "e", "v">>
Eng == <<"E", "n", "g">>
FullTime == <<"F", "u", "l", "l", "-", "t", "i", "m", "e">>
Al == <<"A", "l">>
Bo == <<"B", "o">>

Job(title, type, company, location, description, start, end) ==
    [multiLocaleTitle |-> title, employmentType |-> type,
     multiLocaleCompanyName |-> company, location |-> location,
     description |-> description, start |-> start, end |-> end]

\* A localized field with its en_US entry.
Localized(text) == Some(Some(text))

Date(month, year) == [month |-> month, year |-> year]

CurrentJob(title, company) ==
    Job(Localized(title), FullTime, Localized(company), <<>>, <<>>,
        Date(3, 2020), Date(0, 0))

PastJob(title, company) ==
    Job(Localized(title), FullTime, Localized(company), <<>>, <<>>,
        Date(0, 2018), Date(6, 2019))

School(field, degree, name, description, activities, year) ==
    [fieldOfStudy |-> field, degree |-> degree, schoolName |-> name,
     description |-> description, activities |-> activities,
     end |-> [year |-> year]]

Profile(first, last, headline, summary, position, educations) ==
    [firstName |-> first, lastName |-> last, headline |-> headline,
     summary |-> summary, position |-> position, educations |-> educations]

\* Well-formed records whose entries differ in name, in being current or
\* past, and in having notes.
OrgNames == {Ac, AcLower, Acm}

OrderJobs ==
    {CurrentJob(Dev, n) : n \in OrgNames} \cup {PastJob(Dev, n) : n \in OrgNames}
    \cup {Job(Localized(Eng), Internship, Localized(Ac), <<"N", "Y">>,
              <<"x", "\n", "y">>, Date(0, 2017), Date(0, 0))}

OrderSchools ==
    {School(<<"C", "S">>, Some(<<"B", "S", "c">>), Some(n), <<>>, <<>>, 0) :
        n \in {Ac, AcLower}}

OrderProfiles ==
    {Profile(Some(Al), Some(Bo), None, None, Some(js), Some(ss)) :
        js \in SeqsUpTo(OrderJobs, MaxJobs), ss \in SeqsUpTo(OrderSchools, MaxSchools)}

\* Records with entries of unexpected shape, and records lacking fields.
ShapeJobs ==
    { CurrentJob(Dev, Ac),
      Job(Localized(Eng), Internship, Localized(Ac), <<>>, <<>>,
          Date(0, 2018), Date(6, 2019)),
      Job(None, FullTime, Localized(Ac), <<>>, <<>>, Date(3, 2020), Date(0, 0)),
      Job(Some(None), FullTime, Localized(Ac), <<>>, <<>>, Date(3, 2020), Date(0, 0)),
      Job(Some(None), Internship, Localized(Ac), <<>>, <<>>, Date(3, 2020), Date(0, 0)),
      Job(Localized(Dev), FullTime, Some(None), <<>>, <<>>, Date(0, 2018), Date(6, 2019)),
      Job(Localized(Dev), FullTime, None, <<>>, <<>>, Date(0, 2018), Date(6, 2019)) }

ShapeSchools ==
    { School(<<"C", "S">>, Some(<<"B", "S", "c">>), Some(Ac), <<>>, <<>>, 2016),
      School(<<"C", "S">>, None, Some(Ac), <<>>, <<>>, 2016) }

Headlines == {None, Some(<<"H", "i">>)}
Summaries == {None, Some(<<"M", "e">>)}

ShapeProfiles ==
    {Profile(Some(Al), Some(Bo), None, None, Some(js), Some(ss)) :
        js \in SeqsUpTo(ShapeJobs, MaxJobs), ss \in SeqsUpTo(ShapeSchools, MaxSchools)}
    \cup
    {Profile(first, last, headline, summary, position, educations) :
        first \in {None, Some(Al)}, last \in {None, Some(Bo)},
        headline \in Headlines, summary \in Summaries,
        position \in {None} \cup {Some(js) : js \in SeqsUpTo({CurrentJob(Dev, Ac)}, 1)},
        educations \in {None} \cup {Some(ss) : ss \in SeqsUpTo(OrderSchools, 1)}}

\* The few records two overlapping calls are run on.
PairProfiles ==
    {Profile(Some(Al), Some(Bo), None, None, Some(js), Some(ss)) :
        js \in SeqsUpTo({CurrentJob(Dev, Ac), PastJob(Dev, Ac)}, MaxPairEntries),
        ss \in SeqsUpTo(ShapeSchools, MaxPairEntries)}
    \cup {Profile(Some(Al), Some(Bo), None, None, None, Some(<<>>))}

Usernames == {Al}

(***************************************************************************)
(* Specifications.                                                         *)
(***************************************************************************)
\* The handler invocations in C, answered with records of P.
NextOn(C, P) ==
    \E c \in C :
        \/ \E btn \in Buttons, host \in Hosts, username \in Usernames :
              OnClick(c, btn, host, username)
        \/ pc[c] = "await" /\ \E r \in P : Respond(c, r)
        \/ FetchRejects(c)
        \/ JobIteration(c)
        \/ JobRaises(c)
        \/ JobsDone(c)
        \/ SchoolIteration(c)
        \/ SchoolRaises(c)
        \/ ReturnNote(c)
        \/ Catch(c)
        \/ Finish(c)
        \/ Reopen(c)

Profiles == OrderProfiles \cup ShapeProfiles

\* One handler invocation at a time, on every record.
Spec == Init /\ [][NextOn({1}, Profiles)]_vars

\* One handler invocation at a time, on well-formed records and on the two
\* simplest records that make a loop raise.
SpecOrder ==
    Init /\ [][NextOn({1}, OrderProfiles \cup
                  { Profile(Some(Al), Some(Bo), None, None, None, Some(<<>>)),
                    Profile(Some(Al), Some(Bo), None, None, Some(<<>>), None) })]_vars

\* Two handler invocations whose calls overlap.
SpecCalls == Init /\ [][NextOn(Calls, PairProfiles)]_vars

(***************************************************************************)
(* searchLinkedInProfiles and the Search button of SearchProfilesModal.    *)
(***************************************************************************)
KeywordsKey == <<"k", "e", "y", "w", "o", "r", "d", "s", "=">>
FirstNameKey == <<"f", "i", "r", "s", "t", "N", "a", "m", "e", "=">>
LastNameKey == <<"l", "a", "s", "t", "N", "a", "m", "e", "=">>
Amp == <<"&">>

\* if (x): a string is truthy unless it is undefined or empty.
Truthy(o) == IsSome(o) /\ Get(o) # <<>>

\* Mutant of BuildParams: an input counts as given unless it is undefined.
BuildParamsDefined(args) ==
    (IF IsSome(args.keywords) THEN KeywordsKey \o Get(args.keywords) \o Amp ELSE <<>>)
    \o (IF IsSome(args.firstName) THEN FirstNameKey \o Get(args.firstName) \o Amp ELSE <<>>)
    \o (IF IsSome(args.lastName) THEN LastNameKey \o Get(args.lastName) ELSE <<>>)

\* params after lines 151-154.
BuildParams(args) ==
    (IF Truthy(args.keywords) THEN KeywordsKey \o Get(args.keywords) \o Amp ELSE <<>>)
    \o (IF Truthy(args.firstName) THEN FirstNameKey \o Get(args.firstName) \o Amp ELSE <<>>)
    \o (IF Truthy(args.lastName) THEN LastNameKey \o Get(args.lastName) ELSE <<>>)

\* The guard of the Search button (line 421).
NothingTyped(args) ==
    /\ Get(args.firstName) = <<>>
    /\ Get(args.lastName) = <<>>
    /\ Get(args.keywords) = <<>>

\* searchLinkedInProfiles up to its first await or its early return
\* (lines 150-180).
SearchCall(args, host, caller) ==
    /\ scaller' = caller
    /\ sargs' = args
    /\ params' = BuildParams(args)
    /\ IF BuildParams(args) = <<>>
       THEN /\ sret' = Some(Failure)
            /\ srequest' = None
            /\ spc' = "returned"
       ELSE /\ sret' = None
            /\ srequest' = IF EndpointEmpty(host) THEN None
                           ELSE Some([host |-> host, params |-> BuildParams(args)])
            /\ spc' = "await"

\* The Search button is clicked with what the three text fields hold
\* (lines 420-427).
SearchOnClick(first, last, keywords, host) ==
    /\ spc = "idle"
    /\ LET args == [firstName |-> Some(first), lastName |-> Some(last),
                    keywords |-> Some(keywords)]
       IN IF NothingTyped(args)
          THEN /\ ssink' = <<[op |-> "Notice", items |-> <<>>]>>
               /\ sargs' = args
               /\ scaller' = "onClick"
               /\ UNCHANGED <<spc, params, srequest, sret>>
          ELSE /\ SearchCall(args, host, "onClick")
               /\ ssink' = <<>>
    /\ UNCHANGED <<pvars, kvars>>

\* searchLinkedInProfiles called on its own, with any arguments.
SearchDirect(args, host) ==
    /\ spc = "idle"
    /\ SearchCall(args, host, "direct")
    /\ ssink' = <<>>
    /\ UNCHANGED <<pvars, kvars>>

\* The answers of the search endpoint: items of a successful search.
SearchResults == {<<>>, <<[username |-> Al]>>, <<[username |-> Al], [username |-> Bo]>>}

\* The response is in hand (lines 181-191), or fetch rejected (192-197).
SearchRespond(outcome, items) ==
    /\ spc = "await"
    /\ outcome = "rejected" => IsSome(srequest)
    /\ sret' = IF outcome = "success" THEN Some([code |-> 0, details |-> Some(items)])
               ELSE Some(Failure)
    /\ srequest' = None
    /\ spc' = "returned"
    /\ UNCHANGED <<scaller, sargs, params, ssink>>
    /\ UNCHANGED <<pvars, kvars>>

\* The rest of the Search handler (lines 428-431).
SearchFinish ==
    /\ spc = "returned"
    /\ scaller = "onClick"
    /\ ssink' = (IF Get(sret).code = 0
                 THEN <<[op |-> "PickProfileModal.open", items |-> Get(Get(sret).details)]>>
                 ELSE <<>>)
                \o <<[op |-> "close", items |-> <<>>]>>
    /\ spc' = "closed"
    /\ UNCHANGED <<scaller, sargs, params, srequest, sret>>
    /\ UNCHANGED <<pvars, kvars>>

\* The search modal is opened anew, or the bare call's result is dropped.
SearchReopen ==
    /\ \/ spc = "closed"
       \/ spc = "returned" /\ scaller = "direct"
    /\ spc' = "idle"
    /\ scaller' = "onClick"
    /\ sargs' = NoArgs
    /\ params' = <<>>
    /\ srequest' = None
    /\ sret' = None
    /\ ssink' = <<>>
    /\ UNCHANGED <<pvars, kvars>>

FirstNames == {<<>>, Al}
LastNames == {<<>>, Bo}
Keywords == {<<>>, Dev}
Optional(S) == {None} \cup {Some(x) : x \in S}

SearchNext ==
    \/ \E first \in FirstNames, last \in LastNames, keywords \in Keywords, host \in Hosts :
          SearchOnClick(first, last, keywords, host)
    \/ \E first \in Optional(FirstNames), last \in Optional(LastNames),
          keywords \in Optional(Keywords), host \in Hosts :
          SearchDirect([firstName |-> first, lastName |-> last, keywords |-> keywords], host)
    \/ \E outcome \in {"success", "failure", "rejected"}, items \in SearchResults :
          SearchRespond(outcome, items)
    \/ SearchFinish
    \/ SearchReopen

\* The search alone.
SpecSearch == Init /\ [][SearchNext]_vars

(***************************************************************************)
(* Records that vary one entry's text: the degree of a school; the title,  *)
(* the employmentType, the location and the description of a job.          *)
(***************************************************************************)
MaxRendered == 1

BS == <<"B", "S">>
Degrees ==
    { BS,
      <<"B", "A", " ", "-", " ", "B", "S">>,
      <<"B", "-">>,
      <<"B", "S", " ", "-", " ", "C", "S", " ", "-", " ", "H">>,
      <<"B", "-", "S", "-", "c">> }

DegreeSchools ==
    {School(<<"C", "S">>, Some(d), Some(Ac), <<>>, <<>>, y) :
        d \in Degrees, y \in {0, 2016}}
    \cup {School(<<"C", "S">>, None, Some(Ac), <<>>, <<>>, 2016)}

\* The two simplest records that make a loop raise.
RaisingProfiles ==
    { Profile(Some(Al), Some(Bo), None, None, None, Some(<<>>)),
      Profile(Some(Al), Some(Bo), None, None, Some(<<>>), None) }

DegreeProfiles ==
    {Profile(Some(Al), Some(Bo), None, None, Some(js), Some(ss)) :
        js \in SeqsUpTo({PastJob(Dev, Acm)}, 1),
        ss \in SeqsUpTo(DegreeSchools, MaxRendered)}
    \cup RaisingProfiles

\* One handler invocation at a time, on records whose schools differ in
\* their degree.
SpecDegree == Init /\ [][NextOn({1}, DegreeProfiles)]_vars

NY == <<"N", "Y">>
Locations == {<<>>, NY}
Descriptions == {<<>>, <<"x">>, <<"x", "\n", "y">>}

NotesJobs ==
    {Job(Localized(Dev), FullTime, Localized(Ac), loc, desc, Date(3, 2020), end) :
        loc \in Locations, desc \in Descriptions, end \in {Date(0, 0), Date(6, 2021)}}

NotesProfiles ==
    {Profile(Some(Al), Some(Bo), None, None, Some(js), Some(ss)) :
        js \in SeqsUpTo(NotesJobs, MaxRendered),
        ss \in SeqsUpTo(ShapeSchools, 1)}
    \cup RaisingProfiles

\* One handler invocation at a time, on records whose jobs differ in having
\* a location and a description.
SpecNotes == Init /\ [][NextOn({1}, NotesProfiles)]_vars

Titles ==
    { Dev,
      InternWord,
      <<"D", "e", "v", " ", "I", "n", "t", "e", "r", "n">>,
      <<"I", "n", "t", "e", "r", "n", "a", "l">>,
      <<"i", "n", "t", "e", "r", "n">>,
      <<"I", "n", "t", "e", "r">> }

EmploymentTypes == {Internship, FullTime, <<"i", "n", "t", "e", "r", "n", "s", "h", "i", "p">>}

TitleJobs ==
    {Job(Localized(t), type, Localized(Ac), <<>>, <<>>, Date(3, 2020), end) :
        t \in Titles, type \in EmploymentTypes, end \in {Date(0, 0), Date(6, 2021)}}

TitleProfiles ==
    {Profile(Some(Al), Some(Bo), None, None, Some(js), Some(ss)) :
        js \in SeqsUpTo(TitleJobs, MaxRendered),
        ss \in SeqsUpTo(ShapeSchools, 1)}
    \cup RaisingProfiles

\* One handler invocation at a time, on records whose jobs differ in their
\* title and their employmentType.
SpecTitle == Init /\ [][NextOn({1}, TitleProfiles)]_vars

(***************************************************************************)
(* fetchLinkedInProfile as a whole: the value it returns for a record.     *)
(***************************************************************************)
RECURSIVE AfterJobs(_, _, _, _)
\* The loop over result.position from its k-th entry on (lines 72-102).
AfterJobs(jobs, k, body, orgs) ==
    IF k > Len(jobs) THEN [raised |-> FALSE, body |-> body, orgs |-> orgs]
    ELSE IF JobThrows(jobs[k]) THEN [raised |-> TRUE, body |-> body, orgs |-> orgs]
    ELSE AfterJobs(jobs, k + 1, BodyAfterJob(body, jobs[k], orgs),
                   OrgsAfterJob(orgs, jobs[k]))

RECURSIVE AfterSchools(_, _, _, _)
\* The loop over result.educations from its k-th entry on (lines 105-126).
AfterSchools(schools, k, body, orgs) ==
    IF k > Len(schools) THEN [raised |-> FALSE, body |-> body, orgs |-> orgs]
    ELSE IF SchoolThrows(schools[k]) THEN [raised |-> TRUE, body |-> body, orgs |-> orgs]
    ELSE AfterSchools(schools, k + 1, BodyAfterSchool(body, schools[k], orgs),
                      OrgsAfterSchool(orgs, schools[k]))

\* What fetchLinkedInProfile returns once result is the record r
\* (lines 61-147).
FetchReturn(r) ==
    IF IsNone(r.position) THEN Failure
    ELSE LET j == AfterJobs(Get(r.position), 1, InitialBody, <<>>)
         IN IF j.raised \/ IsNone(r.educations) THEN Failure
            ELSE LET e == AfterSchools(Get(r.educations), 1,
                                       j.body \o EducationHeader, j.orgs)
                 IN IF e.raised THEN Failure
                    ELSE Success([title |-> NoteTitle(r),
                                  body |-> FinalBody(e.body, r)])

(***************************************************************************)
(* PickProfileModal: the profile buttons and the Create/Insert handlers.   *)
(***************************************************************************)
\* The Search handler opens the dialog on the results of a search
\* (lines 428-430, 448-461): nothing is chosen yet.
PickOpen(items, editor) ==
    /\ pstate \in {"none", "closed"}
    /\ pstate' = "open"
    /\ pitems' = items
    /\ peditor' = editor
    /\ chosenProfile' = None
    /\ hpc' = "idle"
    /\ hbutton' = "create"
    /\ husername' = None
    /\ prequest' = None
    /\ psink' = <<>>
    /\ UNCHANGED <<pvars, svars>>

\* The 'Chose Profile' button of the k-th result (lines 469-471).
Choose(k) ==
    /\ pstate = "open"
    /\ chosenProfile' = Some(pitems[k])
    /\ UNCHANGED <<pstate, pitems, peditor, hpc, hbutton, husername, prequest, psink>>
    /\ UNCHANGED <<pvars, svars>>

\* chosenProfile.username with chosenProfile undefined raises a TypeError in
\* the handler, before fetchLinkedInProfile is called (lines 479, 500).
ClickThrows(chosen) == IsNone(chosen)

\* 'Create new note' or 'Insert at cursor' is clicked: the handler up to its
\* await (lines 478-479, 499-500).  With nothing chosen the async handler
\* ends in a rejected promise; the statements behind the await, this.close()
\* among them, do not run.  One such handler is in flight at a time.
PickClick(btn, host) ==
    /\ pstate = "open"
    /\ hpc \in {"idle", "threw"}
    /\ btn = "insert" => peditor
    /\ hbutton' = btn
    /\ IF ClickThrows(chosenProfile)
       THEN /\ hpc' = "threw"
            /\ husername' = None
            /\ prequest' = None
       ELSE /\ hpc' = "await"
            /\ husername' = Some(Get(chosenProfile).username)
            /\ prequest' = IF EndpointEmpty(host) THEN None
                           ELSE Some([host |-> host,
                                      username |-> Get(chosenProfile).username])
    /\ UNCHANGED <<pstate, pitems, peditor, chosenProfile, psink>>
    /\ UNCHANGED <<pvars, svars>>

\* fetchLinkedInProfile returns to the handler, which writes or notifies and
\* closes the dialog (lines 480-492, 501-506).  The fetch may have rejected.
PickResume(rejected, r) ==
    /\ hpc = "await"
    /\ rejected => IsSome(prequest)
    /\ LET profile == IF rejected THEN Failure ELSE FetchReturn(r)
       IN psink' = HandlerEffects(hbutton, profile)
    /\ prequest' = None
    /\ hpc' = "done"
    /\ pstate' = "closed"
    /\ UNCHANGED <<pitems, peditor, chosenProfile, hbutton, husername>>
    /\ UNCHANGED <<pvars, svars>>

\* The records a profile fetch of the dialog is answered with.
PickAnswers ==
    {Profile(Some(Al), Some(Bo), headline, None, Some(js), Some(<<>>)) :
        headline \in Headlines, js \in SeqsUpTo({CurrentJob(Dev, Ac)}, 1)}
    \cup RaisingProfiles

PickHandlerStep == \E rejected \in BOOLEAN, r \in PickAnswers : PickResume(rejected, r)

PickNext ==
    \/ \E items \in SearchResults, editor \in BOOLEAN : PickOpen(items, editor)
    \/ \E k \in 1..Len(pitems) : Choose(k)
    \/ \E btn \in Buttons, host \in Hosts : PickClick(btn, host)
    \/ PickHandlerStep

\* The dialog alone.
SpecPick == Init /\ [][PickNext]_vars

\* The dialog alone; a handler that awaits fetchLinkedInProfile is resumed
\* once the promise settles, whatever the user does or does not do.
SpecPickFair == SpecPick /\ WF_vars(PickHandlerStep)

(***************************************************************************)
(* Reading a note: what the claims below say about bodies and results.     *)
(***************************************************************************)
Lines(body) == Split(body, NL)

Reverse(seq) == [k \in 1..Len(seq) |-> seq[Len(seq) + 1 - k]]

\* The call of slot c has just returned a note.
ReturnedNote(c) ==
    /\ pc[c] = "returned"
    /\ Get(ret[c]).code = 0

\* The call of slot c has returned (either way).
HasReturned(c) == pc[c] \in {"returned", "closed"}

\* The call of slot c got a record and has returned (either way).
Answered(c) == HasReturned(c) /\ IsSome(result[c])

ReturnedBody(c) == Get(Get(ret[c]).details).body

InputJobs(c) == Get(Get(result[c]).position)
InputSchools(c) == Get(Get(result[c]).educations)

IsCurrentJob(job) == job.end.year = 0
IsPastJob(job) == job.end.year # 0

\* The first line of a job's entry: "**title** at ...".
IsJobLine(line) == StartsWith(line, Bold) /\ StrContains(line, BoldAt)
IsCurrentLine(line) == IsJobLine(line) /\ StrContains(line, Since)
IsPastLine(line) == IsJobLine(line) /\ StrContains(line, To)

IsBracket(ch) == ch \in {"[", "]"}
NotBracket(ch) == ~IsBracket(ch)
\* A line with its link brackets taken away.
Unlinked(line) == SelectSeq(line, NotBracket)

\* How a job's first line starts, link brackets aside.
JobLineHead(job) ==
    Bold \o Str(jobTitle(job)) \o BoldAt \o Str(Get(job.multiLocaleCompanyName))
    \o (IF IsCurrentJob(job) THEN Since ELSE From)
    \o MonthPart(job.start.month) \o NumToStr(job.start.year)

\* lines[k] starts as the first line of jobs[k], for every k.
LinesAreJobs(lines, jobs) ==
    /\ Len(lines) = Len(jobs)
    /\ \A k \in 1..Len(jobs) : StartsWith(Unlinked(lines[k]), JobLineHead(jobs[k]))

\* C1: in the body fetchLinkedInProfile returns, every current position
\* stands above every past position whatever the input order; the current
\* positions stand in reverse input order and the past ones in input order.
C1_CurrentAbovePast ==
    \A c \in Calls :
        ReturnedNote(c) =>
            LET lines == Lines(ReturnedBody(c))
                current == {a \in 1..Len(lines) : IsCurrentLine(lines[a])}
                past == {b \in 1..Len(lines) : IsPastLine(lines[b])}
            IN /\ \A a \in current, b \in past : a < b
               /\ LinesAreJobs(SelectSeq(lines, IsCurrentLine),
                               Reverse(SelectSeq(InputJobs(c), IsCurrentJob)))
               /\ LinesAreJobs(SelectSeq(lines, IsPastLine),
                               SelectSeq(InputJobs(c), IsPastJob))

\* A note was returned for an input that lists a past position before a
\* current one.
C1_Witness ==
    \E c \in Calls :
        /\ ReturnedNote(c)
        /\ \E i, j \in 1..Len(InputJobs(c)) :
              i < j /\ IsPastJob(InputJobs(c)[i]) /\ IsCurrentJob(InputJobs(c)[j])

\* The names of the record's companies and schools, as they are printed.
EntityNames(c) ==
    {Str(Get(InputJobs(c)[k].multiLocaleCompanyName)) : k \in 1..Len(InputJobs(c))}
    \cup {Str(InputSchools(c)[k].schoolName) : k \in 1..Len(InputSchools(c))}

\* The line names the entity as a [[link]].
LinkedMention(line, name) ==
    \/ StrContains(line, BoldAt \o LinkOpen \o name \o LinkClose \o <<" ">>)
    \/ StrContains(line, From \o LinkOpen \o name \o LinkClose)

\* The line names the entity as plain text.
PlainMention(line, name) ==
    \/ StrContains(line, BoldAt \o name \o <<" ">>)
    \/ StrContains(line, From \o name \o <<".">>)
    \/ StrContains(line, From \o name \o <<",">>)

\* C2: reading the returned body from top to bottom, the first occurrence of
\* every organization or institution name is a [[link]] and every later
\* occurrence of the same name is plain text.
C2_FirstOccurrenceLinked ==
    \A c \in Calls :
        ReturnedNote(c) =>
            LET lines == Lines(ReturnedBody(c))
            IN \A name \in EntityNames(c) :
                  \A a \in 1..Len(lines) :
                     LET first == \A b \in 1..(a - 1) :
                                     ~LinkedMention(lines[b], name)
                                     /\ ~PlainMention(lines[b], name)
                     IN /\ LinkedMention(lines[a], name) => first
                        /\ PlainMention(lines[a], name) => ~first

\* C3: a record lacking firstName, lastName, position or educations makes
\* the call return an error (code 1, no note), never a note.
C3_MissingFieldRejected ==
    \A c \in Calls :
        /\ Answered(c)
        /\ \/ IsNone(Get(result[c]).firstName)
           \/ IsNone(Get(result[c]).lastName)
           \/ IsNone(Get(result[c]).position)
           \/ IsNone(Get(result[c]).educations)
        => /\ Get(ret[c]).code = 1
           /\ IsNone(Get(ret[c]).details)

\* The record's entries up to and including the first one that raises: the
\* call fails at an entry.
FailsAtEntry(r) ==
    /\ IsSome(r.position)
    /\ IsSome(r.educations)
    /\ \/ \E k \in 1..Len(Get(r.position)) : JobThrows(Get(r.position)[k])
       \/ \E k \in 1..Len(Get(r.educations)) : SchoolThrows(Get(r.educations)[k])

IsWrite(effect) == effect.op \in {"vault.create", "replaceSelection"}

\* C4: a call that fails at an entry returns only an error, no note, however
\* much of the note was built; and the handlers call vault.create and
\* editor.replaceSelection only with the note of a result whose code is 0.
C4_NoPartialDocument ==
    \A c \in Calls :
        /\ (Answered(c) /\ FailsAtEntry(Get(result[c]))) =>
               /\ Get(ret[c]).code = 1
               /\ IsNone(Get(ret[c]).details)
        /\ \A k \in 1..Len(sink[c]) :
               IsWrite(sink[c][k]) =>
                   /\ Get(ret[c]).code = 0
                   /\ ~FailsAtEntry(Get(result[c]))
                   /\ sink[c][k].data = ReturnedBody(c)
        /\ (pc[c] = "closed" /\ Get(ret[c]).code = 1) =>
               \A k \in 1..Len(sink[c]) : ~IsWrite(sink[c][k])

\* A handler has finished after a call that failed at its second entry, with
\* part of the note built.
C4_Witness ==
    \E c \in Calls :
        /\ pc[c] = "closed"
        /\ IsSome(result[c])
        /\ FailsAtEntry(Get(result[c]))
        /\ idx[c] = 2
        /\ Len(noteContent[c].body) > Len(InitialBody)
        /\ Len(sink[c]) = 1

\* The job lacks its en_US title or its en_US company name.
LacksLocale(job) ==
    \/ IsNone(job.multiLocaleTitle)
    \/ IsNone(Get(job.multiLocaleTitle))
    \/ IsNone(job.multiLocaleCompanyName)
    \/ IsNone(Get(job.multiLocaleCompanyName))

\* C7: a job that lacks its en_US title or company name makes the call
\* return an error, whatever its employmentType.
C7_MissingLocaleRejected ==
    \A c \in Calls :
        /\ Answered(c)
        /\ IsSome(Get(result[c]).position)
        /\ \E k \in 1..Len(InputJobs(c)) : LacksLocale(InputJobs(c)[k])
        => /\ Get(ret[c]).code = 1
           /\ IsNone(Get(ret[c]).details)

BackgroundLine == <<"#", "#", " ", "B", "a", "c", "k", "g", "r", "o", "u", "n", "d">>
WorkLine == <<"#", "#", "#", " ", "W", "o", "r", "k">>
EducationLine == <<"#", "#", "#", " ", "E", "d", "u", "c", "a", "t", "i", "o", "n">>
FooterLines == << <<>>, <<"-", "-", "-">>, <<"#", "p", "e", "o", "p", "l", "e">> >>

IsEntryLine(line) == StartsWith(line, Bold) \/ StartsWith(line, Bullet)

\* C9: a record with no positions and no educations yields a note whose body
\* holds the Work header directly followed by the Education header, with
\* nothing but the footer after it and no entry line anywhere.
C9_EmptySections ==
    \A c \in Calls :
        /\ pc[c] = "returned"
        /\ IsSome(result[c])
        /\ Get(result[c]).position = Some(<<>>)
        /\ Get(result[c]).educations = Some(<<>>)
        => /\ Get(ret[c]).code = 0
           /\ LET lines == Lines(ReturnedBody(c))
              IN /\ \E k \in 1..Len(lines) :
                       /\ lines[k] = BackgroundLine
                       /\ k + 2 <= Len(lines)
                       /\ lines[k + 1] = WorkLine
                       /\ lines[k + 2] = EducationLine
                       /\ SubSeq(lines, k + 3, Len(lines)) = FooterLines
                 /\ \A k \in 1..Len(lines) : ~IsEntryLine(lines[k])

\* A note was returned for a record with no positions and no educations that
\* has a headline and a summary.
C9_Witness ==
    \E c \in Calls :
        /\ ReturnedNote(c)
        /\ Get(result[c]).position = Some(<<>>)
        /\ Get(result[c]).educations = Some(<<>>)
        /\ IsSome(Get(result[c]).headline)
        /\ IsSome(Get(result[c]).summary)

\* No search input is given: each is undefined or empty.
NoSearchInput(args) ==
    ~Truthy(args.firstName) /\ ~Truthy(args.lastName) /\ ~Truthy(args.keywords)

\* A search was started (by the button or by a bare call) and not yet reset.
SearchStarted == spc # "idle" \/ ssink # <<>>

\* C5: with firstName, lastName and keywords all empty or absent no fetch is
\* ever in flight; searchLinkedInProfiles returns an error at once, and the
\* Search button shows its notice without calling it.
C5_EmptyQueryNoFetch ==
    (SearchStarted /\ NoSearchInput(sargs)) =>
        /\ IsNone(srequest)
        /\ spc # "await"
        /\ scaller = "direct" =>
               /\ spc = "returned"
               /\ Get(sret).code = 1
               /\ IsNone(Get(sret).details)
        /\ scaller = "onClick" =>
               /\ spc = "idle"
               /\ IsNone(sret)
               /\ ssink = <<[op |-> "Notice", items |-> <<>>]>>

\* searchLinkedInProfiles was called with two empty strings and an undefined
\* argument, and has returned.
C5_Witness ==
    /\ spc = "returned"
    /\ scaller = "direct"
    /\ NoSearchInput(sargs)
    /\ IsNone(sargs.keywords)
    /\ IsSome(sargs.firstName)

\* The key=value fragments of the inputs that are present, in the order
\* keywords, firstName, lastName.
Fragments(args) ==
    (IF Truthy(args.keywords) THEN <<KeywordsKey \o Get(args.keywords)>> ELSE <<>>)
    \o (IF Truthy(args.firstName) THEN <<FirstNameKey \o Get(args.firstName)>> ELSE <<>>)
    \o (IF Truthy(args.lastName) THEN <<LastNameKey \o Get(args.lastName)>> ELSE <<>>)

\* C6: for every combination of inputs with at least one present, the query
\* string is exactly the fragments of the present inputs joined by "&", with
\* no separator in front or behind.
C6_QueryIsJoinedFragments ==
    (spc # "idle" /\ ~NoSearchInput(sargs)) => params = Join(Fragments(sargs), Amp)

\* The names of the entries of a record, in the order the loops visit them.
NamesInOrder(r) ==
    LET jobs == Get(r.position)
        schools == IF IsSome(r.educations) THEN Get(r.educations) ELSE <<>>
    IN [k \in 1..Len(jobs) |->
           IF IsSome(jobs[k].multiLocaleCompanyName)
           THEN Get(jobs[k].multiLocaleCompanyName) ELSE None]
       \o [k \in 1..Len(schools) |-> schools[k].schoolName]

\* C8: formatting is deterministic and local to the call: two calls that got
\* the same record return the same value, however they overlap and whatever
\* ran before them; and the table of a running call holds names of
\* entries of its own record only.
C8_DeterministicCallLocal ==
    /\ \A c, d \in Calls :
          (Answered(c) /\ Answered(d) /\ result[c] = result[d]) => ret[c] = ret[d]
    /\ \A c \in Calls :
          (pc[c] \in {"jobs", "schools", "catch", "returned", "closed"} /\ IsSome(result[c])) =>
              \A k \in 1..Len(linkedOrgs[c]) :
                  /\ IsSome(Get(result[c]).position)
                  /\ \/ \E j \in 1..Len(InputJobs(c)) :
                           linkedOrgs[c][k] = Get(InputJobs(c)[j].multiLocaleCompanyName)
                     \/ /\ IsSome(Get(result[c]).educations)
                        /\ \E j \in 1..Len(InputSchools(c)) :
                              linkedOrgs[c][k] = InputSchools(c)[j].schoolName

\* Both slots hold a returned note for the same record, in which a company
\* and a school have the same name.
C8_Witness ==
    /\ ReturnedNote(1)
    /\ ReturnedNote(2)
    /\ result[1] = result[2]
    /\ Len(InputJobs(1)) = 1
    /\ Len(InputSchools(1)) = 1
    /\ Get(InputJobs(1)[1].multiLocaleCompanyName) = InputSchools(1)[1].schoolName

\* The text the step from body to body' added, in front or behind.
Added(before, after) ==
    IF SubSeq(after, 1, Len(before)) = before
    THEN SubSeq(after, Len(before) + 1, Len(after))
    ELSE SubSeq(after, 1, Len(after) - Len(before))

\* The table holds exactly the names of the entries visited so far.
TableIsVisited(c, visited) ==
    linkedOrgs[c] = SubSeq(NamesInOrder(Get(result[c])), 1, visited)

\* The entry with the given name was rendered in text, as a link exactly
\* when no earlier entry had that very name.
RenderedByFirstOccurrence(text, name, earlier) ==
    LET seen == \E k \in 1..Len(earlier) : earlier[k] = name
    IN /\ StrContains(text, LinkOpen \o Str(name) \o LinkClose) <=> ~seen
       /\ (StrContains(text, BoldAt \o Str(name) \o <<" ">>)
           \/ StrContains(text, From \o Str(name) \o <<".">>)
           \/ StrContains(text, From \o Str(name) \o <<",">>)) <=> seen

\* C10: each step of either loop renders the entry's name as a [[link]]
\* exactly when no entry visited earlier in the call, job or school, had the
\* very same name, and then adds the name to the table either way.
C10_LinkIffFirstSeen ==
    [][\A c \in Calls :
          /\ (pc[c] = "jobs" /\ idx'[c] = idx[c] + 1) =>
                LET name == Get(InputJobs(c)[idx[c]].multiLocaleCompanyName)
                IN /\ TableIsVisited(c, idx[c] - 1)
                   /\ RenderedByFirstOccurrence(
                          Added(noteContent[c].body, noteContent'[c].body),
                          name, linkedOrgs[c])
                   /\ linkedOrgs'[c] = Append(linkedOrgs[c], name)
          /\ (pc[c] = "schools" /\ idx'[c] = idx[c] + 1) =>
                LET name == InputSchools(c)[idx[c]].schoolName
                IN /\ TableIsVisited(c, Len(InputJobs(c)) + idx[c] - 1)
                   /\ RenderedByFirstOccurrence(
                          Added(noteContent[c].body, noteContent'[c].body),
                          name, linkedOrgs[c])
                   /\ linkedOrgs'[c] = Append(linkedOrgs[c], name)
      ]_vars

\* The loops have visited "Ac", then "Acm", then "ac": three names none of
\* which equals another, the first a prefix of the second.
C10_Witness ==
    \E c \in Calls :
        /\ linkedOrgs[c] = <<Some(Ac), Some(Acm), Some(AcLower)>>
        /\ pc[c] = "schools"

\* The degree from behind its first "-" on, trimmed; the degree itself when
\* it has no "-".
AfterFirstDash(degree) ==
    IF StrContains(degree, <<"-">>)
    THEN Trim(SubSeq(degree, IndexOf(degree, <<"-">>) + 1, Len(degree)))
    ELSE degree

\* The first line of a school's entry: "**field** ...".
IsSchoolLine(line) == StartsWith(line, Bold) /\ ~StrContains(line, BoldAt)

\* How a school's first line starts when its degree is printed as text.
SchoolLineHead(school, text) == Bold \o school.fieldOfStudy \o BoldSpace \o text \o From

\* C11: in a returned note the line of every education entry shows the
\* degree as it is when it has no "-", and otherwise everything behind the
\* first "-", trimmed, whatever further "-" follow.
C11_DegreeAfterFirstDash ==
    \A c \in Calls :
        ReturnedNote(c) =>
            LET lines == SelectSeq(Lines(ReturnedBody(c)), IsSchoolLine)
                schools == InputSchools(c)
            IN /\ Len(lines) = Len(schools)
               /\ \A k \in 1..Len(schools) :
                     StartsWith(lines[k],
                                SchoolLineHead(schools[k],
                                               AfterFirstDash(Get(schools[k].degree))))

\* A job's title line as a whole, link brackets aside.
JobTitleLine(job) ==
    JobLineHead(job)
    \o (IF IsCurrentJob(job) THEN <<>>
        ELSE To \o MonthPart(job.end.month) \o NumToStr(job.end.year))
    \o <<".">>

\* The bulleted sub-lines of a job: its location, then the lines of its
\* description.
JobBulletLines(job) ==
    (IF job.location # <<>> THEN <<Bullet \o job.location>> ELSE <<>>)
    \o (IF job.description # <<>>
        THEN LET d == Split(job.description, NL)
             IN [k \in 1..Len(d) |-> Bullet \o d[k]]
        ELSE <<>>)

\* The lines from index a on are the job's entry: its title line alone on a
\* line, then each bullet on a line of its own.
EntryAt(lines, a, job) ==
    LET bullets == JobBulletLines(job)
    IN /\ a + Len(bullets) <= Len(lines)
       /\ Unlinked(lines[a]) = JobTitleLine(job)
       /\ \A k \in 1..Len(bullets) : lines[a + k] = bullets[k]

\* C12: in a returned note every job's title line is followed by its
\* location, if any, and by each line of its description, if any, each as a
\* "- " line of its own; no bullet shares a line with the title line or with
\* another bullet.
C12_BulletsOnOwnLines ==
    \A c \in Calls :
        ReturnedNote(c) =>
            LET lines == Lines(ReturnedBody(c))
            IN \A k \in 1..Len(InputJobs(c)) :
                  \E a \in 1..Len(lines) : EntryAt(lines, a, InputJobs(c)[k])

\* The letters I-n-t-e-r-n stand somewhere in the title, one after another.
HasInternIn(title) ==
    \E k \in 1..Len(title) :
        k + 5 <= Len(title) /\ SubSeq(title, k, k + 5) = InternWord

\* The title a job is to be shown with.
DisplayTitle(job) ==
    LET title == Get(Get(job.multiLocaleTitle))
    IN IF job.employmentType = Internship /\ ~HasInternIn(title)
       THEN title \o InternSuffix
       ELSE title

\* The jobs of a record in the order their lines stand in the note.
JobsAsPrinted(c) ==
    Reverse(SelectSeq(InputJobs(c), IsCurrentJob)) \o SelectSeq(InputJobs(c), IsPastJob)

\* C13: in a returned note every job is shown with its en_US title, with
\* " Intern" appended exactly when its employmentType is "Internship" and
\* the title does not already contain "Intern", and unchanged otherwise.
C13_InternSuffix ==
    \A c \in Calls :
        ReturnedNote(c) =>
            LET lines == SelectSeq(Lines(ReturnedBody(c)), IsJobLine)
                jobs == JobsAsPrinted(c)
            IN /\ Len(lines) = Len(jobs)
               /\ \A k \in 1..Len(jobs) :
                     StartsWith(lines[k], Bold \o DisplayTitle(jobs[k]) \o BoldAt)

\* A note was returned for an internship whose title is "intern", in small
\* letters, and the title is shown with the suffix.
C13_Witness ==
    \E c \in Calls :
        /\ ReturnedNote(c)
        /\ Len(InputJobs(c)) = 1
        /\ InputJobs(c)[1].employmentType = Internship
        /\ Get(Get(InputJobs(c)[1].multiLocaleTitle)) = <<"i", "n", "t", "e", "r", "n">>
        /\ StrContains(ReturnedBody(c), <<"n">> \o InternSuffix \o BoldAt)

\* C14: however many job entries have been processed, every job's line in
\* the body stands below the "## Background" and "### Work" header lines
\* and, once it is there, above the "### Education" header line.
C14_JobsUnderWorkHeader ==
    \A c \in Calls :
        (pc[c] \in {"jobs", "schools"} \/ ReturnedNote(c)) =>
            LET lines == Lines(noteContent[c].body)
            IN \A a \in 1..Len(lines) :
                  IsJobLine(lines[a]) =>
                      /\ \E b \in 1..(a - 1) : lines[b] = BackgroundLine
                      /\ \E w \in 1..(a - 1) : lines[w] = WorkLine
                      /\ \A e \in 1..Len(lines) : lines[e] = EducationLine => a < e

\* A Create/Insert click's handler has started and has not reached its end.
ClickPending == hpc \in {"await", "threw"}

\* C15: in the profile-selection dialog a click on "Create new note" or
\* "Insert at cursor" passes to fetchLinkedInProfile, and fetches, only the
\* username of the profile chosen before the click; and every such click is
\* eventually followed by the dialog closing, also when no profile has been
\* chosen yet.
C15_ClickFetchesChosenThenCloses ==
    /\ [][(hpc' = "await" /\ hpc # "await") =>
             /\ IsSome(chosenProfile)
             /\ husername' = Some(Get(chosenProfile).username)
             /\ IsSome(prequest') => Get(prequest').username = Get(husername')
         ]_vars
    /\ [](IsSome(prequest) => hpc = "await" /\ IsSome(husername))
    /\ (ClickPending ~> pstate = "closed")

=============================================================================
